---- MODULE Spec2Model ----
(***************************************************************************)
(* A model of the directory renamer of src/main.rs: main derives the       *)
(* directory's base name from the target path, get_prefix extracts a       *)
(* prefix from it with a regular expression, and rename_files renames      *)
(* every entry of the directory to "{prefix}_{name}".                      *)
(*                                                                         *)
(* A string is a sequence of characters, a character a one-letter string.  *)
(* An OS string (a file name as the filesystem stores it) may also hold    *)
(* the units "xFF" and "xFE", bytes that are no valid UTF-8.               *)
(***************************************************************************)
EXTENDS FiniteSets, Integers, Sequences, TLC

VARIABLES
    pc,        \* where main is: see the actions
    path,      \* args.path, a sequence of path components
    pattern,   \* args.pattern
    dry_run,   \* args.dry_run
    dirname,   \* main's dirname (or get_prefix's argument)
    prefix,    \* the Result of get_prefix
    dir,       \* the directory: current entry name -> the entry (its first name)
    dir0,      \* the directory when this run of the program started
    listing,   \* the order in which the filesystem enumerates dir0
    pending,   \* the names read_dir's iterator has still to yield
    order,     \* what the iterator yielded so far: <<name, entry>>, in order
    cur,       \* the name of the entry the loop body is at
    out,       \* the lines printed to standard output by rename_files
    err,       \* the diagnostics printed to standard error
    ret,       \* the Result of rename_files
    revisits,  \* how many names created by a rename the iterator has taken up
    history    \* the earlier runs of the program on the directory

vars == <<pc, path, pattern, dry_run, dirname, prefix, dir, dir0, listing,
          pending, order, cur, out, err, ret, revisits, history>>

-----------------------------------------------------------------------------
(* Bounds *)

\* the longest directory name get_prefix is tried on
MaxLen == 3
\* how many names created by a rename the enumerations may take up
MaxRevisit == 1
\* how many entries the directory holds at first
MaxEntries == 2

-----------------------------------------------------------------------------
(* Characters and strings *)

NL == "\n"
Digits == {"1", "2"}
\* U+FFFD, what to_string_lossy writes for a byte that is no UTF-8
Replacement == "U+FFFD"
InvalidBytes == {"xFF", "xFE"}

RECURSIVE StringsUpTo(_, _)
StringsUpTo(S, n) ==
    IF n = 0 THEN {<<>>}
    ELSE LET shorter == StringsUpTo(S, n - 1)
         IN  shorter \cup {Append(w, c) : w \in {v \in shorter : Len(v) = n - 1}, c \in S}

\* OsStr::to_string_lossy
to_string_lossy(os) ==
    [i \in 1..Len(os) |-> IF os[i] \in InvalidBytes THEN Replacement ELSE os[i]]

\* the elements of a sequence, the first occurrence of each kept
RECURSIVE Dedup(_)
Dedup(q) ==
    IF q = <<>> THEN <<>>
    ELSE LET front == Dedup(SubSeq(q, 1, Len(q) - 1))
             last == q[Len(q)]
         IN  IF \E k \in 1..Len(front) : front[k] = last THEN front
             ELSE Append(front, last)

-----------------------------------------------------------------------------
(* Regex::new: the parser of the regex crate, for the syntax in use here:  *)
(* literals, '.', \d, escaped punctuation, groups, '|', and the postfix    *)
(* operators '*', '+', '?'.  A node is a tuple headed by its kind.  The    *)
(* non-greedy forms ('*?', '+?', '??') are not among the patterns tried.   *)

RepOps == {"*", "+", "?"}
Meta == RepOps \cup {"(", ")", "|", ".", "\\"}

Empty == <<"Empty">>

RECURSIVE CatOf(_)
CatOf(items) ==
    IF items = <<>> THEN Empty
    ELSE IF Len(items) = 1 THEN items[1]
    ELSE <<"Cat", items[1], CatOf(Tail(items))>>

RepNode(op, node) ==
    IF op = "*" THEN <<"Star", node>>
    ELSE IF op = "+" THEN <<"Cat", node, <<"Star", node>>>>
    ELSE <<"Alt", node, Empty>>

ParseErr == [ok |-> FALSE, node |-> Empty, next |-> 0]
ParseOk(n, i) == [ok |-> TRUE, node |-> n, next |-> i]

RECURSIVE ParseAlt(_, _)
RECURSIVE ParseCat(_, _, _)
\* a concatenation from p[i] on, items being what was parsed of it so far
ParseCat(p, i, items) ==
    IF i > Len(p) \/ p[i] \in {"|", ")"} THEN ParseOk(CatOf(items), i)
    ELSE IF p[i] \in RepOps THEN
        \* repetition operator missing expression
        IF items = <<>> THEN ParseErr
        ELSE ParseCat(p, i + 1,
                      [items EXCEPT ![Len(items)] = RepNode(p[i], items[Len(items)])])
    ELSE IF p[i] = "(" THEN
        LET g == ParseAlt(p, i + 1)
        IN  IF ~g.ok THEN ParseErr
            \* unclosed group
            ELSE IF g.next > Len(p) \/ p[g.next] # ")" THEN ParseErr
            ELSE ParseCat(p, g.next + 1, Append(items, g.node))
    ELSE IF p[i] = "\\" THEN
        \* incomplete escape sequence
        IF i + 1 > Len(p) THEN ParseErr
        ELSE IF p[i + 1] = "d" THEN ParseCat(p, i + 2, Append(items, <<"Digit">>))
        ELSE IF p[i + 1] \in Meta
             THEN ParseCat(p, i + 2, Append(items, <<"Lit", p[i + 1]>>))
        \* unrecognized escape sequence
        ELSE ParseErr
    ELSE IF p[i] = "." THEN ParseCat(p, i + 1, Append(items, <<"Dot">>))
    ELSE ParseCat(p, i + 1, Append(items, <<"Lit", p[i]>>))

ParseAlt(p, i) ==
    LET c == ParseCat(p, i, <<>>)
    IN  IF ~c.ok THEN ParseErr
        ELSE IF c.next <= Len(p) /\ p[c.next] = "|" THEN
            LET rest == ParseAlt(p, c.next + 1)
            IN  IF ~rest.ok THEN ParseErr
                ELSE ParseOk(<<"Alt", c.node, rest.node>>, rest.next)
        ELSE c

\* Regex::new(p): an error unless the whole of p parses (a ')' left over is
\* an unopened group)
RegexNew(p) ==
    LET r == ParseAlt(p, 1)
    IN  IF r.ok /\ r.next = Len(p) + 1 THEN r ELSE ParseErr

-----------------------------------------------------------------------------
(* Regex::captures: the leftmost-first search of the regex crate.          *)
(* Ends(node, s, i) lists, most preferred first, the positions at which a  *)
(* match of node that starts at position i of s can end.                   *)

RECURSIVE Ends(_, _, _)
RECURSIVE EndsFrom(_, _, _, _)
RECURSIVE StarEnds(_, _, _)

\* the ends of node from each of the starts, in the order of the starts
EndsFrom(node, s, starts, k) ==
    IF k > Len(starts) THEN <<>>
    ELSE Ends(node, s, starts[k]) \o EndsFrom(node, s, starts, k + 1)

\* greedy repetition: another round of the body first, stopping here last
StarEnds(body, s, i) ==
    LET once == SelectSeq(Ends(body, s, i), LAMBDA e : e > i)
        RECURSIVE More(_)
        More(k) == IF k > Len(once) THEN <<>>
                   ELSE StarEnds(body, s, once[k]) \o More(k + 1)
    IN  Dedup(More(1) \o <<i>>)

Ends(node, s, i) ==
    IF node[1] = "Empty" THEN <<i>>
    ELSE IF node[1] = "Lit" THEN
        IF i <= Len(s) /\ s[i] = node[2] THEN <<i + 1>> ELSE <<>>
    ELSE IF node[1] = "Digit" THEN
        IF i <= Len(s) /\ s[i] \in Digits THEN <<i + 1>> ELSE <<>>
    ELSE IF node[1] = "Dot" THEN
        \* '.' matches any character except the line break
        IF i <= Len(s) /\ s[i] # NL THEN <<i + 1>> ELSE <<>>
    ELSE IF node[1] = "Cat" THEN
        Dedup(EndsFrom(node[3], s, Ends(node[2], s, i), 1))
    ELSE IF node[1] = "Alt" THEN
        Dedup(Ends(node[2], s, i) \o Ends(node[3], s, i))
    ELSE StarEnds(node[2], s, i)

NoMatch == <<0, 0>>

\* the first start, from from on, at which node matches, with the preferred end
RECURSIVE Search(_, _, _)
Search(node, s, from) ==
    IF from > Len(s) + 1 THEN NoMatch
    ELSE LET ends == Ends(node, s, from)
         IN  IF ends # <<>> THEN <<from, ends[1]>>
             ELSE Search(node, s, from + 1)

\* a search that tries the start of s only
CapturesAtStart(node, s) ==
    LET ends == Ends(node, s, 1)
    IN  IF ends # <<>> THEN <<1, ends[1]>> ELSE NoMatch

\* re.captures(s).and_then(|caps| caps.get(0)): group 0 of the leftmost match
Captures(node, s) == Search(node, s, 1)

-----------------------------------------------------------------------------
(* fn get_prefix *)

DotStar == <<".", "*">>

Ok(v) == <<"Ok", v>>
Err(e) == <<"Err", e>>
IsOk(r) == r[1] = "Ok"
None == <<"None">>

\* get_prefix with the whole name for a pattern that does not compile
get_prefix_or_name(pat, name) ==
    LET re == RegexNew(IF pat = <<>> THEN DotStar ELSE pat)
    IN  IF ~re.ok THEN Ok(name)
        ELSE LET m == Captures(re.node, name)
             IN  IF m = NoMatch THEN Ok(<<>>)
                 ELSE Ok(SubSeq(name, m[1], m[2] - 1))

get_prefix(pat, name) ==
    LET re == RegexNew(IF pat = <<>> THEN DotStar ELSE pat)
    IN  IF ~re.ok THEN Err("regex")
        ELSE LET m == Captures(re.node, name)
             IN  IF m = NoMatch THEN Ok(<<>>)
                 ELSE Ok(SubSeq(name, m[1], m[2] - 1))

-----------------------------------------------------------------------------
(* The inputs *)

RootDir == <<"/">>
CurDir == <<".">>
ParentDir == <<".", ".">>

Dated == <<"1", "_", "a">>
NotUtf8 == <<"xFF", "1">>

\* "", "/", ".", "1_a", "\xFF1", "s/1_a", "1_a/..", "1_a/."
Paths ==
    { <<>>, <<RootDir>>, <<CurDir>>, <<Dated>>, <<NotUtf8>>, << <<"s">>, Dated >>,
      <<Dated, ParentDir>>, <<Dated, CurDir>> }

\* "", \d+, (\d+, a, b, _|1_
MainPatterns ==
    { <<>>, <<"\\", "d", "+">>, <<"(", "\\", "d", "+">>, <<"a">>, <<"b">>,
      <<"_", "|", "1", "_">> }

\* and .*, \d*, (a|1)*_, *, ), a\, \., 1|
Patterns ==
    MainPatterns
    \cup { DotStar, <<"\\", "d", "*">>, <<"(", "a", "|", "1", ")", "*", "_">>,
           <<"*">>, <<")">>, <<"a", "\\">>, <<"\\", ".">>, <<"1", "|">> }

NameChars == {"1", "a", "_", NL}

\* the names the directory's entries have at first
Names == { <<"a">>, <<"1", "_", "a">>, <<"xFF">>, <<"xFE">> }

Perms(S) ==
    { q \in [1..Cardinality(S) -> S] : \A x \in S : \E k \in DOMAIN q : q[k] = x }

-----------------------------------------------------------------------------
(* Path::file_name: the last component, unless the path ends in the root   *)
(* or "..", or has no component.  components() drops each "." but a        *)
(* leading one.                                                            *)

Components(p) ==
    LET keep == { k \in 1..Len(p) : k = 1 \/ p[k] # CurDir }
        RECURSIVE Pick(_)
        Pick(k) == IF k > Len(p) THEN <<>>
                   ELSE IF k \in keep THEN <<p[k]>> \o Pick(k + 1)
                   ELSE Pick(k + 1)
    IN  Pick(1)

file_name(p) ==
    LET comps == Components(p)
    IN  IF comps = <<>> THEN None
        ELSE IF comps[Len(comps)] \in {RootDir, CurDir, ParentDir} THEN None
        ELSE <<"Some", comps[Len(comps)]>>

-----------------------------------------------------------------------------
(* fn rename_files, the body of its loop *)

\* format!("{}_{}", prefix, src_name)
dest_name(pre, src_name) == pre \o <<"_">> \o src_name

\* the line println! writes: "{src_name} -> {dest_name}"
Line(pre, name) ==
    LET src_name == to_string_lossy(name)
    IN  <<src_name, dest_name(pre, src_name)>>

\* fs::rename(from, to) when it succeeds: the entry takes the name to, and
\* the entry that had this name, if any, is replaced
Renamed(d, from, to) ==
    [n \in (DOMAIN d \ {from}) \cup {to} |-> IF n = to THEN d[from] ELSE d[n]]

InsertAt(q, k, x) == SubSeq(q, 1, k - 1) \o <<x>> \o SubSeq(q, k, Len(q))

OkUnit == Ok(<<>>)
\* the std::io::Error of the call that failed
IoErr(call) == Err(<<"io", call>>)

-----------------------------------------------------------------------------
(* fn main, step by step.  The two dbg! lines (88, 98) go to standard     *)
(* error and change nothing else; err keeps the eprintln! diagnostics.     *)

Init ==
    /\ pc = "main"
    /\ path \in Paths
    /\ pattern \in MainPatterns
    /\ dry_run \in BOOLEAN
    /\ dirname = None
    /\ prefix = None
    /\ dir \in { [n \in S |-> n] : S \in { T \in SUBSET Names : Cardinality(T) <= MaxEntries } }
    /\ dir0 = dir
    /\ listing \in Perms(DOMAIN dir)
    /\ pending = <<>>
    /\ order = <<>>
    /\ cur = None
    /\ out = <<>>
    /\ err = <<>>
    /\ ret = None
    /\ revisits = 0
    /\ history = <<>>

\* lines 81-87 without the return: "Invalid path" is reported and main goes
\* on with an empty directory name
DeriveDirnameNoReturn ==
    /\ pc = "main"
    /\ LET name == file_name(path)
       IN  IF name = None
           THEN /\ err' = Append(err, "Invalid path")
                /\ dirname' = <<>>
           ELSE /\ dirname' = to_string_lossy(name[2])
                /\ UNCHANGED err
    /\ pc' = "get_prefix"
    /\ UNCHANGED <<path, pattern, dry_run, prefix, dir, dir0, listing, pending,
                   order, cur, out, ret, revisits, history>>

\* lines 81-87: the directory name, or "Invalid path" and return
DeriveDirname ==
    /\ pc = "main"
    /\ LET name == file_name(path)
       IN  IF name = None
           THEN /\ err' = Append(err, "Invalid path")
                /\ pc' = "exit"
                /\ UNCHANGED dirname
           ELSE /\ dirname' = to_string_lossy(name[2])
                /\ pc' = "get_prefix"
                /\ UNCHANGED err
    /\ UNCHANGED <<path, pattern, dry_run, prefix, dir, dir0, listing, pending,
                   order, cur, out, ret, revisits, history>>

\* lines 91-97: the prefix, or "Error compiling regex" and return
ExtractPrefix ==
    /\ pc = "get_prefix"
    /\ prefix' = get_prefix(pattern, dirname)
    /\ IF IsOk(prefix')
       THEN pc' = "rename_files" /\ UNCHANGED err
       ELSE pc' = "exit" /\ err' = Append(err, "Error compiling regex")
    /\ UNCHANGED <<path, pattern, dry_run, dirname, dir, dir0, listing, pending,
                   order, cur, out, ret, revisits, history>>

\* line 58 without the '?': the error of read_dir is kept and reported, and
\* the loop runs all the same
ReadDirErrorKept ==
    /\ pc = "rename_files"
    /\ pending' = listing
    /\ pc' = "loop"
    /\ \/ UNCHANGED <<ret, err>>
       \/ /\ ret' = IoErr("read_dir")
          /\ err' = Append(err, "Error renaming files")
    /\ UNCHANGED <<path, pattern, dry_run, dirname, prefix, dir, dir0, listing,
                   order, cur, out, revisits, history>>

\* line 58, fs::read_dir(path)?: the listing is opened, or the call fails
\* (no such directory, not a directory, permission denied) and rename_files
\* returns the error, which main reports (lines 101-103)
ReadDir ==
    /\ pc = "rename_files"
    /\ \/ /\ pending' = listing
          /\ pc' = "loop"
          /\ UNCHANGED <<ret, err>>
       \/ /\ ret' = IoErr("read_dir")
          /\ err' = Append(err, "Error renaming files")
          /\ pc' = "exit"
          /\ UNCHANGED pending
    /\ UNCHANGED <<path, pattern, dry_run, dirname, prefix, dir, dir0, listing,
                   order, cur, out, revisits, history>>

\* lines 58-65: the iterator yields the next entry, which is reported; or
\* it yields an error (entry?), which rename_files returns
NextEntry ==
    /\ pc = "loop"
    /\ pending # <<>>
    /\ \/ /\ cur' = Head(pending)
          /\ pending' = Tail(pending)
          /\ order' = Append(order, <<cur', dir[cur']>>)
          /\ out' = Append(out, Line(prefix[2], cur'))
          /\ pc' = IF dry_run THEN "loop" ELSE "rename"
          /\ UNCHANGED <<ret, err>>
       \/ /\ ret' = IoErr("next")
          /\ err' = Append(err, "Error renaming files")
          /\ pc' = "exit"
          /\ UNCHANGED <<cur, pending, order, out>>
    /\ UNCHANGED <<path, pattern, dry_run, dirname, prefix, dir, dir0, listing,
                   revisits, history>>

\* line 66, fs::rename(entry.path(), path.join(dest_name))?: the entry is
\* renamed, or the call fails and rename_files returns the error.  Whether
\* the iterator, which reads the directory as the loop goes, will yield a
\* name that appeared after it was opened is up to the filesystem.
Rename ==
    /\ pc = "rename"
    /\ LET to == dest_name(prefix[2], to_string_lossy(cur))
       IN  \/ /\ dir' = Renamed(dir, cur, to)
              /\ \/ UNCHANGED <<pending, revisits>>
                 \/ /\ revisits < MaxRevisit
                    /\ \A k \in 1..Len(pending) : pending[k] # to
                    /\ \E k \in 1..Len(pending) + 1 : pending' = InsertAt(pending, k, to)
                    /\ revisits' = revisits + 1
              /\ pc' = "loop"
              /\ UNCHANGED <<ret, err>>
           \/ /\ ret' = IoErr("rename")
              /\ err' = Append(err, "Error renaming files")
              /\ pc' = "exit"
              /\ UNCHANGED <<dir, pending, revisits>>
    /\ UNCHANGED <<path, pattern, dry_run, dirname, prefix, dir0, listing, order,
                   cur, out, history>>

\* lines 68-69: the iterator is exhausted and rename_files returns Ok(())
Finish ==
    /\ pc = "loop"
    /\ pending = <<>>
    /\ ret' = OkUnit
    /\ pc' = "exit"
    /\ UNCHANGED <<path, pattern, dry_run, dirname, prefix, dir, dir0, listing,
                   pending, order, cur, out, err, revisits, history>>

\* after a run that succeeded the program is started a second time on the
\* same path with the same pattern, with or without --dry_run; a directory
\* left as it was is listed in the same order as before
Rerun ==
    /\ pc = "exit"
    /\ ret = OkUnit
    /\ history = <<>>
    /\ history' = <<[dry_run |-> dry_run, dir0 |-> dir0, out |-> out]>>
    /\ dry_run' \in BOOLEAN
    /\ dir0' = dir
    /\ listing' \in IF dir = dir0 THEN {listing} ELSE Perms(DOMAIN dir)
    /\ pc' = "main"
    /\ dirname' = None
    /\ prefix' = None
    /\ pending' = <<>>
    /\ order' = <<>>
    /\ cur' = None
    /\ out' = <<>>
    /\ err' = <<>>
    /\ ret' = None
    /\ UNCHANGED <<path, pattern, dir, revisits>>

Next ==
    \/ DeriveDirname
    \/ ExtractPrefix
    \/ ReadDir
    \/ NextEntry
    \/ Rename
    \/ Finish
    \/ Rerun

Spec == Init /\ [][Next]_vars

-----------------------------------------------------------------------------
(* get_prefix on its own: every pattern on every name of up to MaxLen      *)
(* characters                                                              *)

PrefixInit ==
    /\ pc = "call"
    /\ pattern \in Patterns
    /\ dirname \in StringsUpTo(NameChars, MaxLen)
    /\ prefix = None
    /\ path = <<>>
    /\ dry_run = TRUE
    /\ dir = <<>>
    /\ dir0 = <<>>
    /\ listing = <<>>
    /\ pending = <<>>
    /\ order = <<>>
    /\ cur = None
    /\ out = <<>>
    /\ err = <<>>
    /\ ret = None
    /\ revisits = 0
    /\ history = <<>>

PrefixCall ==
    /\ pc = "call"
    /\ prefix' = get_prefix(pattern, dirname)
    /\ pc' = "returned"
    /\ UNCHANGED <<path, pattern, dry_run, dirname, dir, dir0, listing, pending,
                   order, cur, out, err, ret, revisits, history>>

PrefixNext == PrefixCall

PrefixSpec == PrefixInit /\ [][PrefixNext]_vars

-----------------------------------------------------------------------------
(* What a pattern is and what it matches, by the grammar of the syntax:    *)
(*   alt ::= cat | cat '|' alt        cat ::= | rep cat                    *)
(*   rep ::= atom | rep '*' | rep '+' | rep '?'                            *)
(*   atom ::= char | '.' | '\' 'd' | '\' meta | '(' alt ')'                *)
(* WfX(p, i, j): p[i..j] is an X.  MX(p, i, j, w): it is one and the       *)
(* string w is in its language.                                            *)

RECURSIVE WfAlt(_, _, _)
RECURSIVE WfCat(_, _, _)
RECURSIVE WfRep(_, _, _)

WfAtom(p, i, j) ==
    \/ j = i /\ p[i] \notin Meta
    \/ j = i /\ p[i] = "."
    \/ j = i + 1 /\ p[i] = "\\" /\ (p[j] = "d" \/ p[j] \in Meta)
    \/ j > i /\ p[i] = "(" /\ p[j] = ")" /\ WfAlt(p, i + 1, j - 1)

WfRep(p, i, j) ==
    /\ i <= j
    /\ \/ WfAtom(p, i, j)
       \/ p[j] \in RepOps /\ WfRep(p, i, j - 1)

WfCat(p, i, j) ==
    \/ i > j
    \/ \E k \in i..j : WfRep(p, i, k) /\ WfCat(p, k + 1, j)

WfAlt(p, i, j) ==
    \/ WfCat(p, i, j)
    \/ \E k \in i..j : p[k] = "|" /\ WfCat(p, i, k - 1) /\ WfAlt(p, k + 1, j)

WellFormed(p) == WfAlt(p, 1, Len(p))

RECURSIVE MAlt(_, _, _, _)
RECURSIVE MCat(_, _, _, _)
RECURSIVE MRep(_, _, _, _)

MAtom(p, i, j, w) ==
    \/ j = i /\ p[i] \notin Meta /\ w = <<p[i]>>
    \/ j = i /\ p[i] = "." /\ Len(w) = 1 /\ w[1] # NL
    \/ j = i + 1 /\ p[i] = "\\" /\ p[j] = "d" /\ Len(w) = 1 /\ w[1] \in Digits
    \/ j = i + 1 /\ p[i] = "\\" /\ p[j] \in Meta /\ w = <<p[j]>>
    \/ j > i /\ p[i] = "(" /\ p[j] = ")" /\ MAlt(p, i + 1, j - 1, w)

\* w is one or more strings of the language of the rep p[i..j], in a row
RECURSIVE MSome(_, _, _, _)
MSome(p, i, j, w) ==
    \/ MRep(p, i, j, w)
    \/ \E m \in 1..Len(w) - 1 :
          MRep(p, i, j, SubSeq(w, 1, m)) /\ MSome(p, i, j, SubSeq(w, m + 1, Len(w)))

MRep(p, i, j, w) ==
    /\ i <= j
    /\ \/ MAtom(p, i, j, w)
       \/ p[j] = "*" /\ WfRep(p, i, j - 1) /\ (w = <<>> \/ MSome(p, i, j - 1, w))
       \/ p[j] = "+" /\ MSome(p, i, j - 1, w)
       \/ p[j] = "?" /\ WfRep(p, i, j - 1) /\ (w = <<>> \/ MRep(p, i, j - 1, w))

MCat(p, i, j, w) ==
    \/ i > j /\ w = <<>>
    \/ \E k \in i..j : \E m \in 0..Len(w) :
          MRep(p, i, k, SubSeq(w, 1, m)) /\ MCat(p, k + 1, j, SubSeq(w, m + 1, Len(w)))

MAlt(p, i, j, w) ==
    \/ MCat(p, i, j, w)
    \/ \E k \in i..j : p[k] = "|" /\ WfAlt(p, k + 1, j) /\ MCat(p, i, k - 1, w)
    \/ \E k \in i..j : p[k] = "|" /\ WfCat(p, i, k - 1) /\ MAlt(p, k + 1, j, w)

\* the spans <<i, j>> of s that p matches: s[i..j], empty when j = i - 1
Spans(p, s) ==
    { sp \in (1..Len(s) + 1) \X (0..Len(s)) :
        sp[2] >= sp[1] - 1 /\ MAlt(p, 1, Len(p), SubSeq(s, sp[1], sp[2])) }

-----------------------------------------------------------------------------
(* The claims about get_prefix, under PrefixSpec *)

\* C3: get_prefix("", s) returns Ok(s) for every string s, the empty string
\* and the strings that hold a line break included.
C3_EmptyPatternIsIdentity ==
    (pc = "returned" /\ pattern = <<>>) => prefix = Ok(dirname)

\* C4: for a non-empty pattern that compiles, get_prefix returns Ok of the
\* part of the name that the leftmost match of the pattern covers, a
\* contiguous part of the name, and Ok("") when the pattern matches nowhere.
C4_LeftmostMatch ==
    (pc = "returned" /\ pattern # <<>> /\ WellFormed(pattern)) =>
        /\ IsOk(prefix)
        /\ LET spans == Spans(pattern, dirname)
           IN  IF spans = {} THEN prefix[2] = <<>>
               ELSE \E sp \in spans :
                       /\ prefix[2] = SubSeq(dirname, sp[1], sp[2])
                       /\ \A t \in spans : sp[1] <= t[1]

\* \d+ on "a12": the match starts past the start of the name
C4_Witness ==
    /\ pc = "returned"
    /\ pattern = <<"\\", "d", "+">>
    /\ dirname = <<"a", "1", "1">>
    /\ prefix = Ok(<<"1", "1">>)

\* C8: for a pattern that is no regular expression, get_prefix returns an
\* error and never a value: neither the empty string nor the whole name.
C8_InvalidPatternIsError ==
    (pc = "returned" /\ pattern # <<>> /\ ~WellFormed(pattern)) => ~IsOk(prefix)

\* the unbalanced group (\d+
C8_Witness ==
    /\ pc = "returned"
    /\ pattern = <<"(", "\\", "d", "+">>
    /\ dirname # <<>>
    /\ prefix = Err("regex")

-----------------------------------------------------------------------------
(* The claims about main and rename_files, under Spec *)

Range(f) == { f[x] : x \in DOMAIN f }

\* the name rename_files gives the entry named n
NewName(n) == dest_name(prefix[2], to_string_lossy(n))

ReturnedOk == pc = "exit" /\ ret = OkUnit

\* C1: a dry run prints the lines that a real run on the same contents
\* prints, in the same order, and leaves the names in the directory as they
\* were.  Here the real run follows the dry run, on the directory the dry
\* run left, and the lines are compared when the real run has returned Ok.
C1_DryRunPrintsWhatRealRunPrints ==
    /\ (pc = "exit" /\ dry_run) => DOMAIN dir = DOMAIN dir0
    /\ (ReturnedOk /\ ~dry_run /\ history # <<>> /\ history[1].dry_run) =>
          /\ history[1].dir0 = dir0
          /\ out = history[1].out

\* C2: a real run that returns Ok leaves exactly the names prefix_n, n a
\* name of the directory at the start, has printed one line per entry, and
\* has processed no entry twice.
C2_EachEntryRenamedOnce ==
    (ReturnedOk /\ ~dry_run) =>
        /\ DOMAIN dir = { NewName(n) : n \in DOMAIN dir0 }
        /\ Len(out) = Cardinality(DOMAIN dir0)
        /\ \A k, l \in 1..Len(order) : k # l => order[k][2] # order[l][2]

\* C5: when a rename fails, the entries processed before keep their new
\* names, the entries not yet processed are neither reported nor renamed
\* and keep their names, and the line of the entry whose rename failed is
\* printed.
C5_RenameFailureStopsTheRun ==
    (pc = "exit" /\ ret = IoErr("rename")) =>
        /\ \A k \in 1..Len(order) - 1 :
              /\ NewName(order[k][1]) \in DOMAIN dir
              /\ dir[NewName(order[k][1])] = order[k][2]
        /\ \A n \in DOMAIN dir0 :
              (\A l \in 1..Len(order) : order[l][2] # dir0[n]) =>
                  n \in DOMAIN dir /\ dir[n] = dir0[n]
        /\ Len(out) = Len(order)
        /\ out[Len(out)] = Line(prefix[2], cur)
        /\ cur \in DOMAIN dir /\ dir[cur] = order[Len(order)][2]

\* C6: a run creates and deletes nothing: the directory holds as many
\* entries as at the start, and each entry of the start is there under the
\* name it had or under prefix_name.
C6_OnlyRenames ==
    /\ Cardinality(DOMAIN dir) = Cardinality(DOMAIN dir0)
    /\ \A n \in DOMAIN dir0 :
          \E m \in {n} \cup (IF IsOk(prefix) THEN {NewName(n)} ELSE {}) :
              m \in DOMAIN dir /\ dir[m] = dir0[n]

\* C7: two real runs in a row that both return Ok leave exactly the names
\* prefix_prefix_n, n a name of the directory before the first.
C7_SecondRunPrefixesAgain ==
    (ReturnedOk /\ ~dry_run /\ history # <<>> /\ ~history[1].dry_run) =>
        /\ DOMAIN dir = { NewName(NewName(n)) : n \in DOMAIN history[1].dir0 }
        /\ (history[1].dir0 # <<>> => DOMAIN dir # DOMAIN dir0)

\* C9: once "Invalid path" is reported get_prefix was not called, once
\* either it or "Error compiling regex" is reported rename_files was not
\* called: nothing is enumerated, printed or renamed, and main has returned.
C9_EarlyFailuresDoNothing ==
    /\ (\E k \in 1..Len(err) : err[k] = "Invalid path") =>
          /\ pc = "exit"
          /\ dirname = None /\ prefix = None
    /\ (\E k \in 1..Len(err) : err[k] \in {"Invalid path", "Error compiling regex"}) =>
          /\ pc = "exit"
          /\ ret = None
          /\ pending = <<>> /\ order = <<>> /\ out = <<>>
          /\ dir = dir0
          /\ Len(err) = 1

\* the pattern does not compile, the directory has entries, the run is real
C9_Witness ==
    /\ pc = "exit"
    /\ err = <<"Error compiling regex">>
    /\ ~IsOk(prefix)
    /\ ~dry_run
    /\ DOMAIN dir # {}

\* C10 as stated: whichever step of the enumeration fails, opening the
\* listing or reading the next entry, nothing is printed or renamed by then.
C10_AnyEnumerationFailure ==
    ret \in {IoErr("read_dir"), IoErr("next")} =>
        out = <<>> /\ dir = dir0

\* C10 as amended: when opening the listing fails nothing is printed or
\* renamed; when reading an entry fails the error is returned at once, with
\* a line printed for each entry read before it and for no other, and with
\* nothing renamed if no entry was read before it or the run is a dry run.
C10_EnumerationFailure ==
    /\ ret = IoErr("read_dir") =>
          pc = "exit" /\ out = <<>> /\ order = <<>> /\ dir = dir0
    /\ ret = IoErr("next") =>
          /\ pc = "exit"
          /\ pending # <<>>
          /\ Len(out) = Len(order)
          /\ \A k \in 1..Len(order) : out[k] = Line(prefix[2], order[k][1])
          /\ (dry_run \/ order = <<>>) => dir = dir0

\* reading the second entry fails after the first was renamed
C10_Witness ==
    /\ pc = "exit"
    /\ ret = IoErr("next")
    /\ ~dry_run
    /\ Len(out) = 1
    /\ dir # dir0

====
